---- MODULE Spec2Model ----
(***************************************************************************)
(* Model of the Electron main process of DatapackHelper                    *)
(* (src/unnamed/part_000): the application lifecycle handlers, the         *)
(* window-open handler installed by createWindow, and the app:// protocol  *)
(* handler installed by registerAppProtocol.                               *)
(*                                                                         *)
(* Strings are sequences of one-character strings, so that URL parsing,    *)
(* percent-decoding, path.extname and path.join are computed character by  *)
(* character and segment by segment, as the runtime computes them (POSIX   *)
(* flavour of the path module).                                            *)
(***************************************************************************)
EXTENDS Integers, Sequences, FiniteSets, TLC

\* ------------------------------------------------------------------ bounds

\* Longest request path, in tokens of PathTokens, after its leading "/".
MaxLen == 4
\* Most windows ever created in one run of the process.
MaxCreated == 3
\* Most window.open calls intercepted in one run of the process.
MaxOpens == 2

\* ---------------------------------------------------------- string helpers

RECURSIVE Flatten(_)
Flatten(ss) == IF ss = <<>> THEN <<>> ELSE Head(ss) \o Flatten(Tail(ss))

\* String.prototype.startsWith
StartsWith(s, p) == Len(p) <= Len(s) /\ SubSeq(s, 1, Len(p)) = p

\* The segments of s between occurrences of the character sep.
RECURSIVE Split(_, _)
Split(s, sep) ==
    IF \A i \in 1..Len(s) : s[i] # sep THEN <<s>>
    ELSE LET k == CHOOSE i \in 1..Len(s) :
                      s[i] = sep /\ \A j \in 1..(i - 1) : s[j] # sep
         IN <<SubSeq(s, 1, k - 1)>> \o Split(SubSeq(s, k + 1, Len(s)), sep)

\* Array.prototype.join
RECURSIVE JoinWith(_, _)
JoinWith(segs, sep) ==
    IF segs = <<>> THEN <<>>
    ELSE IF Len(segs) = 1 THEN segs[1]
    ELSE segs[1] \o <<sep>> \o JoinWith(Tail(segs), sep)

\* ------------------------------------------------------------- constants

\* __dirname of the main script: an absolute directory, "/app/electron".
Dirname == <<"/", "a", "p", "p", "/", "e", "l", "e", "c", "t", "r", "o", "n">>

DistRel == <<".", ".", "/", "d", "i", "s", "t">>

IndexHtml == <<"i", "n", "d", "e", "x", ".", "h", "t", "m", "l">>

\* The origin of the packaged content, "app://." (createWindow loads
\* app://./index.html).
AppOrigin == <<"a", "p", "p", ":", "/", "/", ".">>

\* --------------------------------------------------------------- path.posix

\* normalizeString: empty and "." segments are dropped; ".." removes the
\* segment before it, is kept when the result may rise above a relative
\* start, and is dropped at the root of an absolute path.
RECURSIVE NormalizeSegs(_, _, _)
NormalizeSegs(segs, res, allowAboveRoot) ==
    IF segs = <<>> THEN res
    ELSE LET seg == Head(segs) IN
         IF seg = <<>> \/ seg = <<".">>
           THEN NormalizeSegs(Tail(segs), res, allowAboveRoot)
         ELSE IF seg = <<".", ".">>
           THEN IF res # <<>> /\ res[Len(res)] # <<".", ".">>
                  THEN NormalizeSegs(Tail(segs), SubSeq(res, 1, Len(res) - 1),
                                     allowAboveRoot)
                ELSE IF allowAboveRoot
                  THEN NormalizeSegs(Tail(segs), Append(res, seg), allowAboveRoot)
                ELSE NormalizeSegs(Tail(segs), res, allowAboveRoot)
         ELSE NormalizeSegs(Tail(segs), Append(res, seg), allowAboveRoot)

\* path.normalize
Normalize(p) ==
    IF p = <<>> THEN <<".">>
    ELSE LET isAbsolute == p[1] = "/"
             trailingSeparator == p[Len(p)] = "/"
             body == JoinWith(NormalizeSegs(Split(p, "/"), <<>>, ~isAbsolute), "/")
         IN IF body = <<>>
              THEN IF isAbsolute THEN <<"/">>
                   ELSE IF trailingSeparator THEN <<".", "/">> ELSE <<".">>
            ELSE (IF isAbsolute THEN <<"/">> ELSE <<>>) \o body
                 \o (IF trailingSeparator THEN <<"/">> ELSE <<>>)

\* path.join: the non-empty arguments joined by "/", then normalized.
PathJoin(args) ==
    LET used == SelectSeq(args, LAMBDA a : a # <<>>)
    IN IF used = <<>> THEN <<".">> ELSE Normalize(JoinWith(used, "/"))

RECURSIVE StripTrailingSlashes(_)
StripTrailingSlashes(s) ==
    IF s # <<>> /\ s[Len(s)] = "/"
      THEN StripTrailingSlashes(SubSeq(s, 1, Len(s) - 1))
    ELSE s

\* The last path component of p, trailing slashes ignored.
Basename(p) ==
    LET t == StripTrailingSlashes(p)
        segs == Split(t, "/")
    IN segs[Len(segs)]

\* path.extname: from the last "." of the last component to its end; empty
\* when there is no ".", when the last "." is the component's first
\* character, and when the component is exactly "..".
ExtName(p) ==
    LET base == Basename(p)
        dots == {i \in 1..Len(base) : base[i] = "."}
    IN IF dots = {} THEN <<>>
       ELSE LET startDot == CHOOSE i \in dots : \A j \in dots : j <= i
            IN IF startDot = 1 \/ base = <<".", ".">> THEN <<>>
               ELSE SubSeq(base, startDot, Len(base))

\* ------------------------------------------------------------ URL parsing

SingleDotSegments == { <<".">>, <<"%", "2", "e">>, <<"%", "2", "E">> }

DoubleDotSegments ==
    { a \o b : a \in SingleDotSegments, b \in SingleDotSegments }

\* The URL parser's path state (a scheme that is not special: only "/"
\* separates segments). A double-dot segment shortens the path, a single-dot
\* segment is skipped, and either one adds an empty segment when it is the
\* last; percent-encoded dots count as dots.
RECURSIVE PathState(_, _)
PathState(segs, urlPath) ==
    IF segs = <<>> THEN urlPath
    ELSE LET seg == Head(segs)
             last == Len(segs) = 1
             shortened == IF urlPath = <<>> THEN <<>>
                          ELSE SubSeq(urlPath, 1, Len(urlPath) - 1)
         IN IF seg \in DoubleDotSegments
              THEN PathState(Tail(segs),
                             IF last THEN Append(shortened, <<>>) ELSE shortened)
            ELSE IF seg \in SingleDotSegments
              THEN PathState(Tail(segs),
                             IF last THEN Append(urlPath, <<>>) ELSE urlPath)
            ELSE PathState(Tail(segs), Append(urlPath, seg))

\* new URL(u).pathname for u = "app://." followed by the path: an absent
\* path stays empty; otherwise the path starts with "/" and each segment the
\* path state keeps is written after a "/".
UrlPathname(u) ==
    LET rest == SubSeq(u, Len(AppOrigin) + 1, Len(u))
    IN IF rest = <<>> THEN <<>>
       ELSE LET urlPath == PathState(Split(Tail(rest), "/"), <<>>)
            IN Flatten([i \in 1..Len(urlPath) |-> <<"/">> \o urlPath[i]])

\* --------------------------------------------------- decodeURIComponent

HexLower == <<"0", "1", "2", "3", "4", "5", "6", "7", "8", "9",
              "a", "b", "c", "d", "e", "f">>

HexUpper == <<"0", "1", "2", "3", "4", "5", "6", "7", "8", "9",
              "A", "B", "C", "D", "E", "F">>

IsHex(c) == \E i \in 1..16 : HexLower[i] = c \/ HexUpper[i] = c

HexVal(c) == (CHOOSE i \in 1..16 : HexLower[i] = c \/ HexUpper[i] = c) - 1

\* The characters below 0x80 that an escape of the modelled requests can
\* name.
AsciiChar(v) ==
    CASE v = 37 -> "%"
      [] v = 46 -> "."
      [] v = 47 -> "/"
      [] v = 97 -> "a"
      [] v = 98 -> "b"

\* A character outside ASCII, decoded from a well-formed multi-byte escape.
NonAscii == "U+"

\* The escape bytes at s[1..3], s[4..6], ... are n continuation bytes
\* (%80..%BF).
RECURSIVE Continuations(_, _)
Continuations(s, n) ==
    IF n = 0 THEN TRUE
    ELSE /\ Len(s) >= 3 /\ s[1] = "%" /\ IsHex(s[2]) /\ IsHex(s[3])
         /\ 16 * HexVal(s[2]) + HexVal(s[3]) \in 128..191
         /\ Continuations(SubSeq(s, 4, Len(s)), n - 1)

\* decodeURIComponent: [ok |-> FALSE] stands for the URIError it throws on a
\* "%" that two hex digits do not follow and on escapes that are not UTF-8
\* (a lead byte and its continuation bytes; the rejection of overlong and
\* surrogate encodings is left out, no modelled request holds a lead byte).
RECURSIVE DecodeURIComponent(_)
DecodeURIComponent(s) ==
    IF s = <<>> THEN [ok |-> TRUE, out |-> <<>>]
    ELSE IF s[1] # "%"
      THEN LET r == DecodeURIComponent(Tail(s))
           IN [ok |-> r.ok, out |-> <<s[1]>> \o r.out]
    ELSE IF Len(s) < 3 \/ ~IsHex(s[2]) \/ ~IsHex(s[3])
      THEN [ok |-> FALSE, out |-> <<>>]
    ELSE LET v == 16 * HexVal(s[2]) + HexVal(s[3])
             n == IF v < 128 THEN 0
                  ELSE IF v \in 194..223 THEN 1
                  ELSE IF v \in 224..239 THEN 2
                  ELSE IF v \in 240..244 THEN 3
                  ELSE -1
         IN IF n = -1 \/ ~Continuations(SubSeq(s, 4, Len(s)), n)
              THEN [ok |-> FALSE, out |-> <<>>]
            ELSE LET r == DecodeURIComponent(SubSeq(s, 4 + 3 * n, Len(s)))
                     c == IF n = 0 THEN AsciiChar(v) ELSE NonAscii
                 IN [ok |-> r.ok, out |-> <<c>> \o r.out]

\* String.prototype.replace(/^\/+/, '')
RECURSIVE StripLeadingSlashes(_)
StripLeadingSlashes(s) ==
    IF s # <<>> /\ s[1] = "/" THEN StripLeadingSlashes(Tail(s)) ELSE s

\* ------------------------------------------------ the app:// file handler

\* distPath = path.join(__dirname, '../dist')
DistPath == PathJoin(<<Dirname, DistRel>>)

\* The forms of the ternary that chooses filePath, by a plausible slip: the
\* route fallback forgotten, and the fallback applied to every request.
FilePathNoIndex(relativePath) == PathJoin(<<DistPath, relativePath>>)

FilePathAlwaysIndex(relativePath) == PathJoin(<<DistPath, relativePath, IndexHtml>>)

\* filePath as the handler computes it from relativePath.
FilePathFor(relativePath) ==
    IF relativePath = <<>>
      THEN PathJoin(<<DistPath, IndexHtml>>)
    ELSE IF ExtName(relativePath) = <<>>
      THEN PathJoin(<<DistPath, relativePath, IndexHtml>>)
    ELSE PathJoin(<<DistPath, relativePath>>)

\* ------------------------------------------------------------------ state

VARIABLES
    isDev,              \* !app.isPackaged, fixed at startup
    platform,           \* process.platform
    appReady,           \* the runtime has signalled ready (app.isReady())
    readyPending,       \* whenReady() has resolved, its continuation has not run
    protocolRegistered, \* registerAppProtocol has run
    windows,            \* BrowserWindow.getAllWindows(), as window ids
    loaded,             \* per window created: what it loaded, and whether the
                        \* app:// handler was registered at that moment
    allClosedPending,   \* a window-all-closed event is waiting for its handler
    allClosedHandled,   \* window-all-closed events handled so far
    quit,               \* app.quit() has been called
    uncaught,           \* a handler has thrown
    opens,              \* window.open calls intercepted so far
    openUrl,            \* the target of the last one
    openAction,         \* the action its handler returned
    forwarded,          \* the URLs that invocation passed to shell.openExternal
    request,            \* request.url of the app:// request being served
    handled,            \* the protocol handler has run for it
    callbackCalls,      \* how often it called callback
    filePath,           \* the path it passed to callback
    threw               \* it ended by throwing

lifeVars == <<isDev, platform, appReady, readyPending, protocolRegistered,
              windows, loaded, allClosedPending, allClosedHandled, quit, uncaught>>

openVars == <<opens, openUrl, openAction, forwarded>>

protoVars == <<request, handled, callbackCalls, filePath, threw>>

vars == <<lifeVars, openVars, protoVars>>

Platforms == {"darwin", "linux", "win32"}

\* -------------------------------------------------- the window-open handler

HttpScheme == <<"h", "t", "t", "p">>

Schemes ==
    { HttpScheme,
      HttpScheme \o <<"s">>,
      HttpScheme \o <<"x">>,
      <<"a", "p", "p">>,
      <<"f", "i", "l", "e">>,
      <<"m", "a", "i", "l", "t", "o">> }

Targets ==
    { sc \o <<":">> \o r : sc \in Schemes,
                            r \in { <<"/", "/", "h", "/">>,
                                    <<"/", "/", "h", "/", "p">> } }

\* The test of the handler with the prefix mistyped as 'https'.
ForwardsHttpsOnly(url) == StartsWith(url, HttpScheme \o <<"s">>)

\* url.startsWith('http')
Forwards(url) == StartsWith(url, HttpScheme)

\* The callback given to setWindowOpenHandler, for target url.
WindowOpenHandler(url) ==
    /\ forwarded' = IF Forwards(url) THEN <<url>> ELSE <<>>
    /\ openAction' = "deny"
    /\ openUrl' = url
    /\ opens' = opens + 1

\* The content of a window calls window.open(url).
WindowOpen ==
    /\ ~quit
    /\ windows # {}
    /\ opens < MaxOpens
    /\ \E url \in Targets : WindowOpenHandler(url)
    /\ UNCHANGED <<lifeVars, protoVars>>

\* ------------------------------------------------------------ the lifecycle

\* createWindow: one more window, loading the dev server or app://./index.html;
\* registered tells whether the app:// handler exists when it loads.
createWindow(registered) ==
    /\ windows' = windows \cup {Len(loaded) + 1}
    /\ loaded' = Append(loaded, [content |-> IF isDev THEN "devServer" ELSE "app",
                                 registered |-> registered])

\* The runtime signals ready: app.whenReady() resolves.
Ready ==
    /\ ~quit
    /\ ~appReady
    /\ appReady' = TRUE
    /\ readyPending' = TRUE
    /\ UNCHANGED <<isDev, platform, protocolRegistered, windows, loaded,
                   allClosedPending, allClosedHandled, quit, uncaught>>
    /\ UNCHANGED <<openVars, protoVars>>

\* The continuation given to app.whenReady().then.
WhenReady ==
    /\ ~quit
    /\ readyPending
    /\ readyPending' = FALSE
    /\ protocolRegistered' = (protocolRegistered \/ ~isDev)
    /\ createWindow(protocolRegistered')
    /\ UNCHANGED <<isDev, platform, appReady, allClosedPending, allClosedHandled,
                   quit, uncaught>>
    /\ UNCHANGED <<openVars, protoVars>>

\* app.quit() is called for every platform.
QuitsAlways == TRUE

\* process.platform !== 'darwin'
QuitsOnAllClosed == platform # "darwin"

\* The user closes window w; closing the last one raises window-all-closed.
CloseWindow ==
    /\ ~quit
    /\ \E w \in windows :
          /\ windows' = windows \ {w}
          /\ allClosedPending' = (allClosedPending \/ windows' = {})
    /\ UNCHANGED <<isDev, platform, appReady, readyPending, protocolRegistered,
                   loaded, allClosedHandled, quit, uncaught>>
    /\ UNCHANGED <<openVars, protoVars>>

\* app.on('window-all-closed')
WindowAllClosed ==
    /\ ~quit
    /\ allClosedPending
    /\ allClosedPending' = FALSE
    /\ allClosedHandled' = allClosedHandled + 1
    /\ quit' = QuitsOnAllClosed
    /\ UNCHANGED <<isDev, platform, appReady, readyPending, protocolRegistered,
                   windows, loaded, uncaught>>
    /\ UNCHANGED <<openVars, protoVars>>

\* app.on('activate'), an event of macOS. new BrowserWindow throws while the
\* runtime is not ready.
Activate ==
    /\ ~quit
    /\ platform = "darwin"
    /\ Len(loaded) < MaxCreated
    /\ IF windows = {}
         THEN IF appReady
                THEN createWindow(protocolRegistered) /\ UNCHANGED uncaught
              ELSE uncaught' = TRUE /\ UNCHANGED <<windows, loaded>>
       ELSE UNCHANGED <<windows, loaded, uncaught>>
    /\ UNCHANGED <<isDev, platform, appReady, readyPending, protocolRegistered,
                   allClosedPending, allClosedHandled, quit>>
    /\ UNCHANGED <<openVars, protoVars>>

\* ------------------------------------------------------ the protocol handler

PathTokens ==
    { <<"/">>, <<".">>, <<"a">>, <<".", "b">>,
      <<"%", "2", "e">>, <<"%", "2", "F">>, <<"%">> }

\* The request URLs: "app://." alone, or followed by "/" and up to MaxLen
\* tokens.
Requests ==
    {AppOrigin} \cup
    { AppOrigin \o <<"/">> \o Flatten(t) :
        t \in UNION { [1..n -> PathTokens] : n \in 0..MaxLen } }

\* The callback given to protocol.registerFileProtocol('app', ...).
HandleRequest ==
    /\ protocolRegistered
    /\ ~handled
    /\ handled' = TRUE
    /\ LET pathname == DecodeURIComponent(UrlPathname(request))
       IN IF pathname.ok
            THEN /\ filePath' = FilePathFor(StripLeadingSlashes(pathname.out))
                 /\ callbackCalls' = callbackCalls + 1
                 /\ threw' = FALSE
          ELSE /\ threw' = TRUE
               /\ UNCHANGED <<filePath, callbackCalls>>
    /\ UNCHANGED <<request, lifeVars, openVars>>

\* --------------------------------------------------------- specifications

NoOpen ==
    /\ opens = 0
    /\ openUrl = <<>>
    /\ openAction = "none"
    /\ forwarded = <<>>

NoRequest ==
    /\ handled = FALSE
    /\ callbackCalls = 0
    /\ filePath = <<>>
    /\ threw = FALSE

\* The process after the main script has run: handlers registered, the
\* runtime not yet ready.
Init ==
    /\ isDev \in BOOLEAN
    /\ platform \in Platforms
    /\ appReady = FALSE
    /\ readyPending = FALSE
    /\ protocolRegistered = FALSE
    /\ windows = {}
    /\ loaded = <<>>
    /\ allClosedPending = FALSE
    /\ allClosedHandled = 0
    /\ quit = FALSE
    /\ uncaught = FALSE
    /\ NoOpen
    /\ request = AppOrigin
    /\ NoRequest

Next ==
    \/ Ready
    \/ WhenReady
    \/ Activate
    \/ CloseWindow
    \/ WindowAllClosed
    \/ WindowOpen

Spec == Init /\ [][Next]_vars

\* The packaged application with its window open and the app:// handler
\* registered, receiving one request.
InitResolver ==
    /\ isDev = FALSE
    /\ platform = "linux"
    /\ appReady = TRUE
    /\ readyPending = FALSE
    /\ protocolRegistered = TRUE
    /\ windows = {1}
    /\ loaded = <<[content |-> "app", registered |-> TRUE]>>
    /\ allClosedPending = FALSE
    /\ allClosedHandled = 0
    /\ quit = FALSE
    /\ uncaught = FALSE
    /\ NoOpen
    /\ request \in Requests
    /\ NoRequest

NextResolver == HandleRequest

SpecResolver == InitResolver /\ [][NextResolver]_vars

\* ------------------------------------------------------------ properties

\* P of the request: its path, percent-decoded, leading slashes stripped.
RequestP == StripLeadingSlashes(DecodeURIComponent(UrlPathname(request)).out)

Decodable == DecodeURIComponent(UrlPathname(request)).ok

\* The handler has served the request by calling back once.
Served == handled /\ callbackCalls = 1 /\ ~threw

Segments(p) == Split(p, "/")

EndsWith(s, p) == Len(p) <= Len(s) /\ SubSeq(s, Len(s) - Len(p) + 1, Len(s)) = p

DotDot == <<".", ".">>

HasDotDotSegment(p) == \E i \in 1..Len(Segments(p)) : Segments(p)[i] = DotDot

\* No segment of p is empty, "." or "..".
PlainSegments(p) ==
    \A i \in 1..Len(Segments(p)) : Segments(p)[i] \notin {<<>>, <<".">>, DotDot}

\* p is distRoot or a descendant of it (p without "." and ".." segments).
InsideDist(p) == p = DistPath \/ StartsWith(p, DistPath \o <<"/">>)

\* Each ".." of segs removed together with the segment before it, the first
\* one first; a ".." with nothing before it is removed alone.
RECURSIVE Cancel(_)
Cancel(segs) ==
    IF \A i \in 1..Len(segs) : segs[i] # DotDot THEN segs
    ELSE LET k == CHOOSE i \in 1..Len(segs) :
                      segs[i] = DotDot /\ \A j \in 1..(i - 1) : segs[j] # DotDot
         IN Cancel(SubSeq(segs, 1, k - 2) \o SubSeq(segs, k + 1, Len(segs)))

\* The directories and file an absolute path p names, from the root.
Resolved(p) ==
    Cancel(SelectSeq(Segments(p), LAMBDA sg : sg # <<>> /\ sg # <<".">>))

\* The absolute path p without empty, "." and ".." segments; a final "/" is
\* kept.
NormalForm(p) ==
    IF Resolved(p) = <<>> THEN <<"/">>
    ELSE <<"/">> \o JoinWith(Resolved(p), "/")
         \o (IF p[Len(p)] = "/" THEN <<"/">> ELSE <<>>)

\* <distRoot>/P and <distRoot>/P/index.html, written out.
DistSlash(p) == DistPath \o <<"/">> \o p

DistSlashIndex(p) == DistPath \o <<"/">> \o p \o <<"/">> \o IndexHtml

Scheme(url) == Split(url, ":")[1]

WebSchemes == { HttpScheme, HttpScheme \o <<"s">> }

\* C1: a request whose decoded path P has a ".." segment is rejected or
\* answered with a path that is distRoot or a descendant of it.
C1_TraversalStaysInside ==
    (handled /\ Decodable /\ HasDotDotSegment(RequestP))
        => (callbackCalls = 0 \/ InsideDist(filePath))

\* C2: for a target whose scheme is neither http nor https the window-open
\* handler returns deny and passes nothing to shell.openExternal.
C2_OtherSchemesNeverForwarded ==
    (opens > 0 /\ Scheme(openUrl) \notin WebSchemes)
        => (openAction = "deny" /\ forwarded = <<>>)

C4_AlwaysCallsBack == handled => (callbackCalls = 1 /\ ~threw)

C6_WebTargetsForwardedOnce ==
    (opens > 0 /\ Scheme(openUrl) \in WebSchemes)
        => (openAction = "deny" /\ forwarded = <<openUrl>>)

C6_Witness ==
    /\ opens > 0
    /\ Scheme(openUrl) = HttpScheme \o <<"s">>
    /\ openAction = "deny"
    /\ forwarded = <<openUrl>>

\* C7: once window-all-closed has been handled, app.quit has been called if
\* and only if the platform is not darwin, in either run mode; it is never
\* called otherwise, so on darwin the process stays alive without windows.
C7_QuitIffNotDarwin == quit <=> (allClosedHandled > 0 /\ platform # "darwin")

C7_Witness ==
    /\ allClosedHandled > 0
    /\ platform = "darwin"
    /\ windows = {}
    /\ ~quit

C9_EmptyGetsRootIndex ==
    (handled /\ Decodable /\ RequestP = <<>>)
        => (Served /\ filePath = DistPath \o <<"/">> \o IndexHtml)

C9_Witness ==
    /\ Served
    /\ request = AppOrigin \o <<"/", "/", "/">>
    /\ filePath = DistPath \o <<"/">> \o IndexHtml

====
